---- MODULE Spec2Model ----
(***************************************************************************)
(* Model of docs/experement_analysis.py: the grouping loop, the sort by    *)
(* experiment number, the aggregation loop, the duration parser            *)
(* time_to_seconds and the two derived series (task-count series and       *)
(* PSO/GA ratio).  The plotting calls between them only read the lists    *)
(* and are left out.                                                       *)
(*                                                                         *)
(* Python strings are sequences of one-character strings.  Floats are      *)
(* exact rationals <<n, d>> in lowest terms; <<0, 0>> is nan and <<1, 0>>  *)
(* is inf.  Binary rounding of floats is not represented.                  *)
(***************************************************************************)
EXTENDS Integers, Sequences, FiniteSets, TLC

VARIABLES
    experiments,        \* data['Experiments']
    pc,                 \* position of the script
    i,                  \* records consumed by the grouping loop
    config_keys,        \* keys of the dict configs, in insertion order
    configs,            \* the dict configs: key -> [PSO, GA]
    sorted_configs,     \* keys of sorted_configs, in sorted order
    k,                  \* entries of sorted_configs consumed by the aggregation loop
    config_names,
    pso_avg_makespan, pso_min_makespan, pso_max_makespan, ga_makespan,
    pso_avg_time, pso_min_time, pso_max_time, ga_time,
    task_counts,
    unique_tasks, unique_pso, unique_ga,
    ratio,
    error,              \* the uncaught exception that ended the script, or "none"
    t,                  \* argument of a direct call of time_to_seconds
    seconds             \* value returned by that call

vars == <<experiments, pc, i, config_keys, configs, sorted_configs, k,
          config_names, pso_avg_makespan, pso_min_makespan, pso_max_makespan,
          ga_makespan, pso_avg_time, pso_min_time, pso_max_time, ga_time,
          task_counts, unique_tasks, unique_pso, unique_ga, ratio, error,
          t, seconds>>

(***************************************************************************)
(* Bounds                                                                  *)
(***************************************************************************)
MaxRecords == 3      \* longest list of experiment records
MaxMakespan == 2     \* Makespan ranges over 1..MaxMakespan
MaxTaskCount == 2    \* TaskCount ranges over 1..MaxTaskCount
MaxLen == 7          \* longest duration string given to time_to_seconds

(***************************************************************************)
(* Sequences and characters                                                *)
(***************************************************************************)
Take(s, n) == SubSeq(s, 1, IF n < Len(s) THEN n ELSE Len(s))

Drop(s, n) == SubSeq(s, n + 1, Len(s))

Range(s) == {s[x] : x \in DOMAIN s}

DigitChars == {"0", "1", "2", "3", "4", "5", "6", "7", "8", "9"}

DigitVal(c) ==
    CASE c = "0" -> 0 [] c = "1" -> 1 [] c = "2" -> 2 [] c = "3" -> 3
      [] c = "4" -> 4 [] c = "5" -> 5 [] c = "6" -> 6 [] c = "7" -> 7
      [] c = "8" -> 8 [] c = "9" -> 9

IsDigits(s) == Len(s) > 0 /\ \A x \in DOMAIN s : s[x] \in DigitChars

RECURSIVE DecValue(_)
DecValue(s) ==
    IF Len(s) = 0 THEN 0
    ELSE 10 * DecValue(SubSeq(s, 1, Len(s) - 1)) + DigitVal(s[Len(s)])

RECURSIVE Pow10(_)
Pow10(n) == IF n = 0 THEN 1 ELSE 10 * Pow10(n - 1)

\* position of the first occurrence of sep in s, 0 when there is none
Find(s, sep) ==
    IF \E x \in DOMAIN s : s[x] = sep
    THEN CHOOSE x \in DOMAIN s : s[x] = sep /\ \A y \in 1..(x - 1) : s[y] # sep
    ELSE 0

\* str.split(sep): the list of fields between occurrences of sep
RECURSIVE Split(_, _)
Split(s, sep) ==
    LET p == Find(s, sep) IN
    IF p = 0 THEN <<s>>
    ELSE <<SubSeq(s, 1, p - 1)>> \o Split(Drop(s, p), sep)

(***************************************************************************)
(* Numbers                                                                 *)
(***************************************************************************)
RECURSIVE GCD(_, _)
GCD(a, b) == IF b = 0 THEN a ELSE GCD(b, a % b)

Norm(n, d) ==
    IF d = 0 THEN (IF n = 0 THEN <<0, 0>> ELSE <<1, 0>>)
    ELSE LET g == GCD(n, d) IN <<n \div g, d \div g>>

Num(n) == <<n, 1>>

NaN == <<0, 0>>

IsNaN(x) == x[1] = 0 /\ x[2] = 0

RAdd(a, b) == Norm(a[1] * b[2] + b[1] * a[2], a[2] * b[2])

RDiv(a, b) == Norm(a[1] * b[2], a[2] * b[1])

RLeq(a, b) == a[1] * b[2] <= b[1] * a[2]

RECURSIVE RSum(_)
RSum(xs) == IF Len(xs) = 0 THEN Num(0) ELSE RAdd(xs[1], RSum(Tail(xs)))

\* np.mean of a non-empty list
Mean(xs) == RDiv(RSum(xs), Num(Len(xs)))

\* min() and max() of a non-empty list
Min(xs) == xs[CHOOSE x \in DOMAIN xs : \A y \in DOMAIN xs : RLeq(xs[x], xs[y])]

Max(xs) == xs[CHOOSE x \in DOMAIN xs : \A y \in DOMAIN xs : RLeq(xs[y], xs[x])]

(***************************************************************************)
(* Python values that a ComputationTime field can hold                     *)
(***************************************************************************)
PyStr(chars) == [isstr |-> TRUE, chars |-> chars]

PyNone == [isstr |-> FALSE, chars |-> <<>>]

(***************************************************************************)
(* time_to_seconds                                                         *)
(***************************************************************************)
\* int(x) succeeds
IntOk(x) == IsDigits(x)

\* float(x) succeeds, for x without '.'
FloatOk(x) == IsDigits(x)

\* float('0.' + ms) succeeds, for ms without '.'
FractionOk(ms) == \A x \in DOMAIN ms : ms[x] \in DigitChars

Fraction_WithoutPrefix(ms) == Num(DecValue(ms))

\* float('0.' + ms)
Fraction(ms) == Norm(DecValue(ms), Pow10(Len(ms)))

\* (s.split('.') + ['0'])[:2]
SecondsFields(s) == Take(Split(s, ".") \o << <<"0">> >>, 2)

time_to_seconds(v) ==
    IF ~v.isstr THEN Num(0)
    ELSE LET parts == Split(v.chars, ":") IN
         IF Len(parts) # 3 THEN Num(0)
         ELSE LET h == parts[1]
                  m == parts[2]
                  sf == SecondsFields(parts[3])
                  s == sf[1]
                  ms == sf[2]
              IN IF IntOk(h) /\ IntOk(m) /\ FloatOk(s) /\ FractionOk(ms)
                 THEN RAdd(RAdd(Num(DecValue(h) * 3600 + DecValue(m) * 60),
                                Num(DecValue(s))),
                           Fraction(ms))
                 ELSE Num(0)

(***************************************************************************)
(* Configuration keys                                                      *)
(***************************************************************************)
\* str.split(): the whitespace-separated tokens
Tokens(s) == SelectSeq(Split(s, " "), LAMBDA f : Len(f) > 0)

\* x[0].split(':')[0].split()
KeyTokens(config) == Tokens(Split(config, ":")[1])

\* the exception raised by int(x[0].split(':')[0].split()[-1]), or "none"
KeyError(config) ==
    LET toks == KeyTokens(config) IN
    IF Len(toks) = 0 THEN "IndexError"
    ELSE IF ~IntOk(toks[Len(toks)]) THEN "ValueError"
    ELSE "none"

\* config_name.split(':')[0].split()[-1]
NumToken(config) == LET toks == KeyTokens(config) IN toks[Len(toks)]

\* the sort key int(x[0].split(':')[0].split()[-1])
SortKey(config) == DecValue(NumToken(config))

\* str.strip()
RECURSIVE LStrip(_)
LStrip(s) == IF Len(s) > 0 /\ s[1] = " " THEN LStrip(Tail(s)) ELSE s

RECURSIVE RStrip(_)
RStrip(s) ==
    IF Len(s) > 0 /\ s[Len(s)] = " " THEN RStrip(SubSeq(s, 1, Len(s) - 1)) ELSE s

Strip(s) == RStrip(LStrip(s))

\* config_name.split(':', 1)[1] raises IndexError
NameFails(config) == Find(config, ":") = 0

\* config_name.split(':', 1)[1].strip()[:20]
Name(config) == Take(Strip(Drop(config, Find(config, ":"))), 20)

\* f"{num}: {name}"
Label(config) == NumToken(config) \o <<":", " ">> \o Name(config)

RECURSIVE InsertByKey_Descending(_, _)
InsertByKey_Descending(sorted, c) ==
    IF Len(sorted) = 0 THEN <<c>>
    ELSE IF SortKey(sorted[Len(sorted)]) >= SortKey(c) THEN Append(sorted, c)
    ELSE Append(InsertByKey_Descending(SubSeq(sorted, 1, Len(sorted) - 1), c),
                sorted[Len(sorted)])

\* sorted(..., key=...): stable, ascending by key
RECURSIVE InsertByKey(_, _)
InsertByKey(sorted, c) ==
    IF Len(sorted) = 0 THEN <<c>>
    ELSE IF SortKey(sorted[Len(sorted)]) <= SortKey(c) THEN Append(sorted, c)
    ELSE Append(InsertByKey(SubSeq(sorted, 1, Len(sorted) - 1), c), sorted[Len(sorted)])

RECURSIVE SortedByKey(_)
SortedByKey(keys) ==
    IF Len(keys) = 0 THEN <<>>
    ELSE InsertByKey(SortedByKey(SubSeq(keys, 1, Len(keys) - 1)), keys[Len(keys)])

\* the exception raised while sorted() computes the keys, or "none"
SortError(keys) ==
    IF \A x \in DOMAIN keys : KeyError(keys[x]) = "none" THEN "none"
    ELSE KeyError(keys[CHOOSE x \in DOMAIN keys :
                          /\ KeyError(keys[x]) # "none"
                          /\ \A y \in 1..(x - 1) : KeyError(keys[y]) = "none"])

(***************************************************************************)
(* Inputs                                                                  *)
(***************************************************************************)
DigitChar(n) == CHOOSE c \in DigitChars : DigitVal(c) = n

\* "2: A", "E 2: B" (the same number as "2: A") and "10: A"
WellFormedConfigs ==
    { <<"2", ":", " ", "A">>,
      <<"E", " ", "2", ":", " ", "B">>,
      <<"1", "0", ":", " ", "A">> }

\* "7" (no ':', the token is an integer), "x: A" (the token is no integer)
\* and ": A" (no token at all)
MalformedConfigs ==
    { <<"7">>,
      <<"x", ":", " ", "A">>,
      <<":", " ", "A">> }

\* "0:00:<m>.5" for a Pso run, "0:0<m>:00" for a Genetic run, None otherwise
DurationOf(type, m) ==
    IF type = "Pso" THEN PyStr(<<"0", ":", "0", "0", ":", DigitChar(m), ".", "5">>)
    ELSE IF type = "Genetic" THEN PyStr(<<"0", ":", "0", DigitChar(m), ":", "0", "0">>)
    ELSE PyNone

Record(config, type, m, n) ==
    [Configuration |-> config, AlgorithmType |-> type, Makespan |-> m,
     ComputationTime |-> DurationOf(type, m), TaskCount |-> n]

\* "Aco" stands for every AlgorithmType other than "Pso" and "Genetic"
Records(cfgs, maxPso, maxGa, maxN) ==
    {Record(c, "Pso", m, n) : c \in cfgs, m \in 1..maxPso, n \in 1..maxN}
    \cup {Record(c, "Genetic", m, 1) : c \in cfgs, m \in 1..maxGa}
    \cup {Record(c, "Aco", 1, 1) : c \in cfgs}

Lists(recs) == UNION {[1..n -> recs] : n \in 0..MaxRecords}

\* the characters of the duration strings: two digits, the two separators
\* and one character that belongs to no number
TimeAlphabet == {"0", "5", ":", ".", "x"}

TimeInputs ==
    {PyNone} \cup {PyStr(s) : s \in UNION {[1..n -> TimeAlphabet] : n \in 0..MaxLen}}

(***************************************************************************)
(* The script                                                              *)
(***************************************************************************)
\* the state before line 14
Start ==
    /\ i = 0
    /\ config_keys = <<>>
    /\ configs = [c \in {} |-> <<>>]
    /\ sorted_configs = <<>>
    /\ k = 0
    /\ config_names = <<>>
    /\ pso_avg_makespan = <<>>
    /\ pso_min_makespan = <<>>
    /\ pso_max_makespan = <<>>
    /\ ga_makespan = <<>>
    /\ pso_avg_time = <<>>
    /\ pso_min_time = <<>>
    /\ pso_max_time = <<>>
    /\ ga_time = <<>>
    /\ task_counts = <<>>
    /\ unique_tasks = <<>>
    /\ unique_pso = <<>>
    /\ unique_ga = <<>>
    /\ ratio = <<>>
    /\ error = "none"
    /\ seconds = Num(0)

InitWith(lists) ==
    /\ experiments \in lists
    /\ pc = IF Len(experiments) = 0 THEN "sort" ELSE "group"
    /\ t = PyNone
    /\ Start

Init == InitWith(Lists(Records(WellFormedConfigs, MaxMakespan, MaxMakespan, MaxTaskCount)))

\* all Pso runs of a configuration are alike, the Genetic runs differ
InitGenetic == InitWith(Lists(Records(WellFormedConfigs, 1, MaxMakespan, 1)))

\* well-formed and malformed configuration strings, all runs of a kind alike
InitKeys == InitWith(Lists(Records(WellFormedConfigs \cup MalformedConfigs, 1, 1, 1)))

InitTime ==
    /\ experiments = <<>>
    /\ pc = "call"
    /\ t \in TimeInputs
    /\ Start

outputs == <<config_names, pso_avg_makespan, pso_min_makespan, pso_max_makespan,
             ga_makespan, pso_avg_time, pso_min_time, pso_max_time, ga_time,
             task_counts>>

series == <<unique_tasks, unique_pso, unique_ga, ratio>>

GroupEntry_Overwrite(entry, exp) ==
    IF exp.AlgorithmType = "Pso" THEN [entry EXCEPT !.PSO = Append(@, exp)]
    ELSE IF exp.AlgorithmType = "Genetic" THEN [entry EXCEPT !.GA = <<exp>>]
    ELSE entry

\* lines 19-22: the entry of configs[config] after one record
GroupEntry(entry, exp) ==
    IF exp.AlgorithmType = "Pso" THEN [entry EXCEPT !.PSO = Append(@, exp)]
    ELSE IF exp.AlgorithmType = "Genetic" /\ entry.GA = <<>>
         THEN [entry EXCEPT !.GA = <<exp>>]
    ELSE entry

\* one iteration of "for exp in experiments"
GroupStep ==
    /\ pc = "group"
    /\ i < Len(experiments)
    /\ LET exp == experiments[i + 1]
           config == exp.Configuration
           entry == IF config \in DOMAIN configs THEN configs[config]
                    ELSE [PSO |-> <<>>, GA |-> <<>>]
       IN /\ configs' = [c \in DOMAIN configs \cup {config} |->
                            IF c = config THEN GroupEntry(entry, exp) ELSE configs[c]]
          /\ config_keys' = IF config \in DOMAIN configs THEN config_keys
                            ELSE Append(config_keys, config)
    /\ i' = i + 1
    /\ pc' = IF i + 1 = Len(experiments) THEN "sort" ELSE "group"
    /\ UNCHANGED <<experiments, sorted_configs, k, outputs, series, error, t, seconds>>

\* sorted(configs.items(), key=...)
Sort ==
    /\ pc = "sort"
    /\ IF SortError(config_keys) # "none"
       THEN /\ error' = SortError(config_keys)
            /\ pc' = "error"
            /\ UNCHANGED sorted_configs
       ELSE /\ sorted_configs' = SortedByKey(config_keys)
            /\ pc' = IF Len(config_keys) = 0 THEN "task_series" ELSE "aggregate"
            /\ UNCHANGED error
    /\ UNCHANGED <<experiments, i, config_keys, configs, k, outputs, series, t, seconds>>

\* the list with x appended when cond holds
AppendIf(cond, xs, x) == IF cond THEN Append(xs, x) ELSE xs

Makespans(trials) == [x \in DOMAIN trials |-> Num(trials[x].Makespan)]

Times(trials) == [x \in DOMAIN trials |-> time_to_seconds(trials[x].ComputationTime)]

\* one iteration of "for config_name, values in sorted_configs"
AggregateStep ==
    /\ pc = "aggregate"
    /\ k < Len(sorted_configs)
    /\ LET config_name == sorted_configs[k + 1]
           values == configs[config_name]
           hasPSO == Len(values.PSO) > 0
           hasGA == Len(values.GA) > 0
       IN IF NameFails(config_name)
          THEN /\ error' = "IndexError"
               /\ pc' = "error"
               /\ UNCHANGED <<k, outputs>>
          ELSE /\ config_names' = Append(config_names, Label(config_name))
               /\ pso_avg_makespan' = AppendIf(hasPSO, pso_avg_makespan, Mean(Makespans(values.PSO)))
               /\ pso_min_makespan' = AppendIf(hasPSO, pso_min_makespan, Min(Makespans(values.PSO)))
               /\ pso_max_makespan' = AppendIf(hasPSO, pso_max_makespan, Max(Makespans(values.PSO)))
               /\ pso_avg_time' = AppendIf(hasPSO, pso_avg_time, Mean(Times(values.PSO)))
               /\ pso_min_time' = AppendIf(hasPSO, pso_min_time, Min(Times(values.PSO)))
               /\ pso_max_time' = AppendIf(hasPSO, pso_max_time, Max(Times(values.PSO)))
               /\ task_counts' = AppendIf(hasPSO, task_counts, values.PSO[1].TaskCount)
               /\ ga_makespan' = Append(ga_makespan,
                                        IF hasGA THEN Num(values.GA[1].Makespan) ELSE NaN)
               /\ ga_time' = Append(ga_time,
                                    IF hasGA THEN time_to_seconds(values.GA[1].ComputationTime)
                                    ELSE NaN)
               /\ k' = k + 1
               /\ pc' = IF k + 1 = Len(sorted_configs) THEN "task_series" ELSE "aggregate"
               /\ UNCHANGED error
    /\ UNCHANGED <<experiments, i, config_keys, configs, sorted_configs, series, t, seconds>>

RECURSIVE Ascending(_)
Ascending(S) ==
    IF S = {} THEN <<>>
    ELSE LET m == CHOOSE x \in S : \A y \in S : x <= y
         IN <<m>> \o Ascending(S \ {m})

\* np.unique(xs, return_index=True)[1]: for each distinct value, in ascending
\* order of the values, the position of its first occurrence
UniqueIndex(xs) ==
    LET vals == Ascending(Range(xs))
    IN [n \in DOMAIN vals |->
           CHOOSE x \in DOMAIN xs : xs[x] = vals[n] /\ \A y \in 1..(x - 1) : xs[y] # vals[n]]

\* np.array(xs)[idx] for a list idx of positions
AtIndex(xs, idx) == [n \in DOMAIN idx |-> xs[idx[n]]]

\* lines 127-130
TaskCountSeries ==
    /\ pc = "task_series"
    /\ LET unique_tasks_idx == UniqueIndex(task_counts)
       IN /\ unique_tasks' = AtIndex(task_counts, unique_tasks_idx)
          /\ unique_pso' = AtIndex(pso_avg_makespan, unique_tasks_idx)
          /\ unique_ga' = AtIndex(ga_makespan, unique_tasks_idx)
    /\ pc' = "ratio_series"
    /\ UNCHANGED <<experiments, i, config_keys, configs, sorted_configs, k, outputs,
                   ratio, error, t, seconds>>

\* ~np.isnan(ga_makespan)
Valid(ga) == [x \in DOMAIN ga |-> ~IsNaN(ga[x])]

\* the positions a boolean mask selects
Selected(mask) == SelectSeq([x \in DOMAIN mask |-> x], LAMBDA x : mask[x])

\* lines 151-152; a boolean mask whose length differs from the array's raises IndexError
RatioSeries ==
    /\ pc = "ratio_series"
    /\ LET valid == Valid(ga_makespan)
           sel == Selected(valid)
       IN IF Len(pso_avg_makespan) # Len(valid)
          THEN /\ error' = "IndexError"
               /\ pc' = "error"
               /\ UNCHANGED ratio
          ELSE /\ ratio' = [n \in DOMAIN sel |->
                               RDiv(pso_avg_makespan[sel[n]], ga_makespan[sel[n]])]
               /\ pc' = "done"
               /\ UNCHANGED error
    /\ UNCHANGED <<experiments, i, config_keys, configs, sorted_configs, k, outputs,
                   unique_tasks, unique_pso, unique_ga, t, seconds>>

\* a direct call time_to_seconds(t)
TimeToSeconds ==
    /\ pc = "call"
    /\ seconds' = time_to_seconds(t)
    /\ pc' = "return"
    /\ UNCHANGED <<experiments, i, config_keys, configs, sorted_configs, k, outputs,
                   series, error, t>>

Next == GroupStep \/ Sort \/ AggregateStep \/ TaskCountSeries \/ RatioSeries

NextTime == TimeToSeconds

Spec == Init /\ [][Next]_vars

SpecGenetic == InitGenetic /\ [][Next]_vars

SpecKeys == InitKeys /\ [][Next]_vars

SpecTime == InitTime /\ [][NextTime]_vars

(***************************************************************************)
(* What the records say, read off the input list                           *)
(***************************************************************************)
Terminated == pc \in {"done", "error"}

Aggregated == pc \in {"task_series", "ratio_series", "done"}

\* the number in front of the ':' of a label
LabelOrdinal(label) == DecValue(SubSeq(label, 1, Find(label, ":") - 1))

\* the Pso records of a configuration in a list, in list order
PsoTrialsIn(list, c) ==
    SelectSeq(list, LAMBDA e : e.Configuration = c /\ e.AlgorithmType = "Pso")

\* the first Genetic record of a configuration in a list, if any
FirstGeneticIn(list, c) ==
    LET at == {x \in DOMAIN list : /\ list[x].Configuration = c
                                   /\ list[x].AlgorithmType = "Genetic"}
    IN IF at = {} THEN <<>>
       ELSE <<list[CHOOSE x \in at : \A y \in at : x <= y]>>

GaMakespanIn(list, c) ==
    LET ga == FirstGeneticIn(list, c)
    IN IF ga = <<>> THEN NaN ELSE Num(ga[1].Makespan)

PsoTrials(c) == PsoTrialsIn(experiments, c)

\* the first Genetic record of a configuration among the first n records
FirstGenetic(c, n) == FirstGeneticIn(SubSeq(experiments, 1, n), c)

GaMakespan(c) == GaMakespanIn(experiments, c)

\* a Genetic run with Makespan m took "0:0<m>:00", that is m minutes
GaTime(c) ==
    LET ga == FirstGenetic(c, Len(experiments))
    IN IF ga = <<>> THEN NaN ELSE Num(60 * ga[1].Makespan)

PsoMean(c) == Mean(Makespans(PsoTrials(c)))

\* the configurations among cs that have a Pso record
WithPso(cs) == SelectSeq(cs, LAMBDA c : Len(PsoTrials(c)) > 0)

(***************************************************************************)
(* C1                                                                      *)
(***************************************************************************)
\* C1 as stated: the ordinals of the output rows, in output order, are
\* pairwise distinct and strictly increasing
C1_StrictlyIncreasing ==
    \A a, b \in DOMAIN config_names :
        a < b => LabelOrdinal(config_names[a]) < LabelOrdinal(config_names[b])

\* C1 amended: the ordinals of the output rows, in output order, never
\* decrease, for every order of the input records; two rows share an ordinal
\* only when two different configuration strings of the input carry it
C1_NonDecreasing ==
    \A a, b \in DOMAIN config_names :
        a < b =>
            /\ LabelOrdinal(config_names[a]) <= LabelOrdinal(config_names[b])
            /\ LabelOrdinal(config_names[a]) = LabelOrdinal(config_names[b]) =>
                   \E x, y \in DOMAIN experiments :
                       /\ experiments[x].Configuration # experiments[y].Configuration
                       /\ SortKey(experiments[x].Configuration) = LabelOrdinal(config_names[a])
                       /\ SortKey(experiments[y].Configuration) = LabelOrdinal(config_names[a])

\* three rows came out, in another order than the configurations came in
C1_Witness ==
    /\ pc = "done"
    /\ Len(config_names) = 3
    /\ sorted_configs # config_keys

(***************************************************************************)
(* C2                                                                      *)
(***************************************************************************)
\* C2: during the scan the GA record of a configuration is the first Genetic
\* record for it among the records scanned so far, and the GA makespan and
\* GA time put out for a configuration are those of that first record
C2_FirstGeneticWins ==
    /\ \A c \in DOMAIN configs : configs[c].GA = FirstGenetic(c, i)
    /\ \A x \in DOMAIN ga_makespan :
           /\ ga_makespan[x] = GaMakespan(sorted_configs[x])
           /\ ga_time[x] = GaTime(sorted_configs[x])

\* a configuration with two Genetic records of different makespan was put out
C2_Witness ==
    /\ pc = "done"
    /\ \E x, y \in DOMAIN experiments :
           /\ x < y
           /\ experiments[x].AlgorithmType = "Genetic"
           /\ experiments[y].AlgorithmType = "Genetic"
           /\ experiments[x].Configuration = experiments[y].Configuration
           /\ experiments[x].Makespan # experiments[y].Makespan

(***************************************************************************)
(* C3                                                                      *)
(***************************************************************************)
\* C3: after each iteration of the aggregation loop the output sequences
\* hold one entry for each configuration handled so far that has a Pso
\* record, and none for the others: all have that length and entry p of each
\* describes the p-th such configuration
C3_AlignedSequences ==
    LET rows == WithPso(SubSeq(sorted_configs, 1, k))
    IN /\ \A n \in {Len(config_names), Len(ga_makespan), Len(ga_time),
                    Len(task_counts), Len(pso_avg_makespan), Len(pso_min_makespan),
                    Len(pso_max_makespan), Len(pso_avg_time), Len(pso_min_time),
                    Len(pso_max_time)} :
              n = Len(rows)
       /\ \A p \in DOMAIN rows :
              /\ LabelOrdinal(config_names[p]) = SortKey(rows[p])
              /\ pso_avg_makespan[p] = PsoMean(rows[p])
              /\ task_counts[p] = PsoTrials(rows[p])[1].TaskCount
              /\ ga_makespan[p] = GaMakespan(rows[p])
              /\ ga_time[p] = GaTime(rows[p])

(***************************************************************************)
(* C4                                                                      *)
(***************************************************************************)
\* C4: the script ends with a ratio series that has one entry for each
\* configuration with a Pso record and a Genetic record, in output order:
\* its Pso mean makespan divided by its GA makespan
C4_RatioSeries ==
    Terminated =>
        LET both == SelectSeq(WithPso(sorted_configs),
                              LAMBDA c : ~IsNaN(GaMakespan(c)))
        IN /\ pc = "done"
           /\ ratio = [p \in DOMAIN both |-> RDiv(PsoMean(both[p]), GaMakespan(both[p]))]

(***************************************************************************)
(* C5                                                                      *)
(***************************************************************************)
TaskCountOf(c) == PsoTrials(c)[1].TaskCount

\* C5: the task-count series has one entry for each distinct TaskCount of
\* the aggregated configurations, and that entry holds the Pso mean makespan
\* and the GA makespan (or nan) of the first configuration in output order
\* that has this TaskCount
C5_TaskCountSeries ==
    pc \in {"ratio_series", "done", "error"} =>
        LET rows == WithPso(sorted_configs)
            counts == {TaskCountOf(rows[p]) : p \in DOMAIN rows}
        IN /\ Len(unique_tasks) = Cardinality(counts)
           /\ Len(unique_pso) = Cardinality(counts)
           /\ Len(unique_ga) = Cardinality(counts)
           /\ \A v \in counts :
                  LET first == CHOOSE p \in DOMAIN rows :
                                   /\ TaskCountOf(rows[p]) = v
                                   /\ \A q \in 1..(p - 1) : TaskCountOf(rows[q]) # v
                  IN \E n \in DOMAIN unique_tasks :
                         /\ unique_tasks[n] = v
                         /\ unique_pso[n] = PsoMean(rows[first])
                         /\ unique_ga[n] = GaMakespan(rows[first])

(***************************************************************************)
(* C6 and C7                                                               *)
(***************************************************************************)
Positions(s, c) == {x \in DOMAIN s : s[x] = c}

Lowest(S) == CHOOSE x \in S : \A y \in S : x <= y

Highest(S) == CHOOSE x \in S : \A y \in S : x >= y

\* H:M:S or H:M:S.fff, each field one or more decimal digits
WellFormedDuration(s) ==
    /\ Cardinality(Positions(s, ":")) = 2
    /\ Cardinality(Positions(s, ".")) <= 1
    /\ \A x \in DOMAIN s : s[x] \in DigitChars \cup {":", "."}
    /\ LET c1 == Lowest(Positions(s, ":"))
           c2 == Highest(Positions(s, ":"))
       IN /\ 1 < c1
          /\ c1 + 1 < c2
          /\ c2 < Len(s)
          /\ \A d \in Positions(s, ".") : c2 + 1 < d /\ d < Len(s)

\* hours*3600 + minutes*60 + seconds + 0.fff of a well-formed duration
ExactSeconds(s) ==
    LET c1 == Lowest(Positions(s, ":"))
        c2 == Highest(Positions(s, ":"))
        d == IF Positions(s, ".") = {} THEN Len(s) + 1 ELSE Lowest(Positions(s, "."))
        hours == DecValue(SubSeq(s, 1, c1 - 1))
        minutes == DecValue(SubSeq(s, c1 + 1, c2 - 1))
        secs == DecValue(SubSeq(s, c2 + 1, d - 1))
        fff == SubSeq(s, d + 1, Len(s))
    IN Norm((hours * 3600 + minutes * 60 + secs) * Pow10(Len(fff)) + DecValue(fff),
            Pow10(Len(fff)))

\* C6: time_to_seconds returns 0 for every value that is not a well-formed
\* duration string
C6_MalformedIsZero ==
    (pc = "return" /\ ~(t.isstr /\ WellFormedDuration(t.chars))) => seconds = Num(0)

Kept == SelectSeq(experiments, LAMBDA e : e.AlgorithmType \in {"Pso", "Genetic"})

\* the configurations of a list in order of first appearance
FirstSeen(list) ==
    LET at == SelectSeq([x \in DOMAIN list |-> x],
                        LAMBDA x : \A y \in 1..(x - 1) :
                                       list[y].Configuration # list[x].Configuration)
    IN [n \in DOMAIN at |-> list[at[n]].Configuration]

\* C8: the script ends with the sequences and the series it produces for the
\* list without the records of another type
C8_OtherTypesDropped ==
    Terminated =>
        LET all == SortedByKey(FirstSeen(Kept))
            rows == SelectSeq(all, LAMBDA c : Len(PsoTrialsIn(Kept, c)) > 0)
            names == [x \in DOMAIN all |-> Label(all[x])]
            ga == [x \in DOMAIN all |-> GaMakespanIn(Kept, all[x])]
            avg == [x \in DOMAIN rows |-> Mean(Makespans(PsoTrialsIn(Kept, rows[x])))]
            lo == [x \in DOMAIN rows |-> Min(Makespans(PsoTrialsIn(Kept, rows[x])))]
            hi == [x \in DOMAIN rows |-> Max(Makespans(PsoTrialsIn(Kept, rows[x])))]
            tasks == [x \in DOMAIN rows |-> PsoTrialsIn(Kept, rows[x])[1].TaskCount]
            sel == Selected(Valid(ga))
        IN /\ config_names = names
           /\ ga_makespan = ga
           /\ pso_avg_makespan = avg
           /\ pso_min_makespan = lo
           /\ pso_max_makespan = hi
           /\ task_counts = tasks
           /\ unique_tasks = AtIndex(tasks, UniqueIndex(tasks))
           /\ unique_pso = AtIndex(avg, UniqueIndex(tasks))
           /\ unique_ga = AtIndex(ga, UniqueIndex(tasks))
           /\ IF Len(avg) = Len(ga)
              THEN /\ pc = "done"
                   /\ ratio = [n \in DOMAIN sel |-> RDiv(avg[sel[n]], ga[sel[n]])]
              ELSE pc = "error"

(***************************************************************************)
(* C9                                                                      *)
(***************************************************************************)
\* no ':' in the string, or the last token before the first ':' is no integer
MalformedKey(config) ==
    \/ Positions(config, ":") = {}
    \/ LET toks == Tokens(SubSeq(config, 1, Lowest(Positions(config, ":")) - 1))
       IN Len(toks) = 0 \/ ~IsDigits(toks[Len(toks)])

\* C9: with a malformed configuration string in the input the script never
\* completes the aggregation and no entry is ever appended to an output
\* sequence
C9_MalformedKeyNoOutput ==
    (\E x \in DOMAIN experiments : MalformedKey(experiments[x].Configuration)) =>
        /\ ~Aggregated
        /\ outputs = <<<<>>, <<>>, <<>>, <<>>, <<>>, <<>>, <<>>, <<>>, <<>>, <<>>>>

(***************************************************************************)
(* C10                                                                     *)
(***************************************************************************)
\* C10: without any Pso record in the input the script ends without an error
\* and every output sequence and both series stay empty
C10_NoPsoAllEmpty ==
    (\A x \in DOMAIN experiments : experiments[x].AlgorithmType # "Pso") =>
        /\ pc # "error"
        /\ outputs = <<<<>>, <<>>, <<>>, <<>>, <<>>, <<>>, <<>>, <<>>, <<>>, <<>>>>
        /\ series = <<<<>>, <<>>, <<>>, <<>>>>

====
